---------------------------- MODULE Spec2Model ----------------------------
(***************************************************************************)
(* A model of roots.py: the polynomial routines (Errors,                   *)
(* evaluate_polynomial, is_root, integer_roots) and the command-line       *)
(* wrapper (main, parse_coefficients, print_roots).                        *)
(*                                                                         *)
(* One behaviour is one top-level call.  Init chooses the function called  *)
(* and its arguments; the actions run the call to its end.  The two        *)
(* evaluation loops are operators; integer_roots and main advance one      *)
(* statement (or one loop iteration) per step.                             *)
(***************************************************************************)
EXTENDS Integers, Sequences, FiniteSets

(***************************************************************************)
(* Bounds of the model.                                                    *)
(***************************************************************************)
\* longest list passed as poly
MaxLen == 3
\* largest magnitude of a coefficient
MaxCoef == 2
\* largest magnitude of xval
MaxX == 3
\* largest number of command-line arguments
MaxArgs == 3

(***************************************************************************)
(* Python values.                                                          *)
(*                                                                         *)
(* An element of a list is an int, or some other object ([1], "a", 1.5).   *)
(* The argument poly is a list of elements, or some other object ({}).     *)
(* Elements after the first are ints: the routines look at the type of     *)
(* poly[0] only, and arithmetic on other objects is outside the model.     *)
(***************************************************************************)
Int_(v) == [isint |-> TRUE, val |-> v]
NonInt == [isint |-> FALSE, val |-> 0]

List(items) == [islist |-> TRUE, items |-> items]
NonList == [islist |-> FALSE, items |-> <<>>]

IntList(s) == List([i \in 1..Len(s) |-> Int_(s[i])])

Coefs == (0 - MaxCoef)..MaxCoef

SeqsUpTo(S, n) == UNION {[1..k -> S] : k \in 0..n}

\* every list the model passes as poly: all-int lists, and lists whose first
\* element is not an int
Lists ==
  LET tails == SeqsUpTo(Coefs, MaxLen - 1)
  IN  {List(<<>>)}
        \cup {List(<<Int_(h)>> \o [i \in 1..Len(t) |-> Int_(t[i])]) :
                h \in Coefs, t \in tails}
        \cup {List(<<NonInt>> \o [i \in 1..Len(t) |-> Int_(t[i])]) : t \in tails}

Polys == Lists \cup {NonList}

Xvals == (0 - MaxX)..MaxX

(***************************************************************************)
(* The outcome of a call: a returned int, bool, list or None, or a raised  *)
(* exception.                                                              *)
(***************************************************************************)
Pending == [kind |-> "pending", ival |-> 0, bval |-> FALSE, lval |-> <<>>, exc |-> ""]
RetInt(v) == [kind |-> "int", ival |-> v, bval |-> FALSE, lval |-> <<>>, exc |-> ""]
RetBool(b) == [kind |-> "bool", ival |-> 0, bval |-> b, lval |-> <<>>, exc |-> ""]
RetList(l) == [kind |-> "list", ival |-> 0, bval |-> FALSE, lval |-> l, exc |-> ""]
RetNone == [kind |-> "None", ival |-> 0, bval |-> FALSE, lval |-> <<>>, exc |-> ""]
Raise(e) == [kind |-> "raise", ival |-> 0, bval |-> FALSE, lval |-> <<>>, exc |-> e]

BadPolynomialError == "BadPolynomialError"
ValueError == "ValueError"
NoError == ""

\* Errors without the test of poly[0] == 0
Errors_NoZeroCheck(p) ==
  IF ~p.islist THEN BadPolynomialError
  ELSE IF p.items = <<>> THEN NoError
  ELSE IF ~p.items[1].isint THEN BadPolynomialError
  ELSE NoError

(***************************************************************************)
(* Errors(poly): the exception the validity check raises, or NoError.      *)
(***************************************************************************)
Errors(p) ==
  IF ~p.islist THEN BadPolynomialError
  ELSE IF p.items = <<>> THEN NoError
  ELSE IF ~p.items[1].isint THEN BadPolynomialError
  ELSE IF p.items[1].val = 0 THEN BadPolynomialError
  ELSE NoError

(***************************************************************************)
(* x ** n on ints, n >= 0 (the loops never pass a negative power).         *)
(***************************************************************************)
RECURSIVE PyPow(_, _)
PyPow(x, n) == IF n <= 0 THEN 1 ELSE x * PyPow(x, n - 1)

\* the loop without "power -= 1"
RECURSIVE EvaluateLoop_NoDecrement(_, _, _, _, _)
EvaluateLoop_NoDecrement(items, xv, i, power, ans) ==
  IF i > Len(items) THEN ans
  ELSE EvaluateLoop_NoDecrement(items, xv, i + 1, power,
                                ans + items[i].val * PyPow(xv, power))

(***************************************************************************)
(* evaluate_polynomial: the for loop, then the function.                   *)
(***************************************************************************)
RECURSIVE EvaluateLoop(_, _, _, _, _)
EvaluateLoop(items, xv, i, power, ans) ==
  IF i > Len(items) THEN ans
  ELSE EvaluateLoop(items, xv, i + 1, power - 1,
                    ans + items[i].val * PyPow(xv, power))

evaluate_polynomial(p, xv) ==
  IF Errors(p) # NoError THEN Raise(Errors(p))
  ELSE IF Len(p.items) = 0 THEN RetInt(0)
  ELSE RetInt(EvaluateLoop(p.items, xv, 1, Len(p.items) - 1, 0))

\* is_root's loop with the power starting one too high
RECURSIVE IsRootLoop_PowerOffByOne(_, _, _, _, _)
IsRootLoop_PowerOffByOne(items, xv, i, power, ans) ==
  IF i > Len(items) THEN ans
  ELSE IsRootLoop_PowerOffByOne(items, xv, i + 1, power - 1,
                                ans + items[i].val * PyPow(xv, power + 1))

(***************************************************************************)
(* is_root: its own copy of the loop, then the comparison with zero.       *)
(***************************************************************************)
RECURSIVE IsRootLoop(_, _, _, _, _)
IsRootLoop(items, xv, i, power, ans) ==
  IF i > Len(items) THEN ans
  ELSE IsRootLoop(items, xv, i + 1, power - 1,
                  ans + items[i].val * PyPow(xv, power))

is_root(p, xv) ==
  IF Errors(p) # NoError THEN Raise(Errors(p))
  ELSE IF IsRootLoop(p.items, xv, 1, Len(p.items) - 1, 0) = 0 THEN RetBool(TRUE)
  ELSE RetBool(FALSE)

(***************************************************************************)
(* list(range(a, b))                                                       *)
(***************************************************************************)
RangeList(a, b) == IF b > a THEN [i \in 1..(b - a) |-> a + i - 1] ELSE <<>>

\* poly[-1]
Last(p) == p.items[Len(p.items)].val

(***************************************************************************)
(* Text.  A string is a sequence of characters.  str(n) is the decimal     *)
(* text of an int; int(s) reads a decimal text with an optional sign and   *)
(* fails on anything else.                                                 *)
(***************************************************************************)
Digits == <<"0", "1", "2", "3", "4", "5", "6", "7", "8", "9">>

RECURSIVE NatStr(_)
NatStr(n) ==
  IF n < 10 THEN <<Digits[n + 1]>>
  ELSE NatStr(n \div 10) \o <<Digits[(n % 10) + 1]>>

str(n) == IF n < 0 THEN <<"-">> \o NatStr(0 - n) ELSE NatStr(n)

IsDigit(c) == \E d \in 1..10 : Digits[d] = c
DigitVal(c) == (CHOOSE d \in 1..10 : Digits[d] = c) - 1

Unsigned(s) == IF s # <<>> /\ s[1] \in {"-", "+"} THEN Tail(s) ELSE s

\* does int(s) succeed
IntOk(s) == Unsigned(s) # <<>> /\ \A i \in 1..Len(Unsigned(s)) : IsDigit(Unsigned(s)[i])

RECURSIVE NatVal(_, _, _)
NatVal(s, i, acc) ==
  IF i > Len(s) THEN acc ELSE NatVal(s, i + 1, 10 * acc + DigitVal(s[i]))

int(s) ==
  IF s[1] = "-" THEN 0 - NatVal(Unsigned(s), 1, 0) ELSE NatVal(Unsigned(s), 1, 0)

\* the command-line words of the model: the decimal texts of the
\* coefficients, a signed and a zero-padded form, and words int() rejects
Tokens ==
  {str(n) : n \in Coefs}
    \cup {<<"+", "1">>, <<"0", "1">>}
    \cup {<<"x">>, <<>>, <<"-">>}

ArgLists == SeqsUpTo(Tokens, MaxArgs)

PROGRAM_EXPLANATION == <<"Usage: $ python roots.py COEFF1 COEFF2 ...">>

(***************************************************************************)
(* parse_coefficients: [int(arg) for arg in arguments]                     *)
(***************************************************************************)
parse_coefficients(args) ==
  IF \E i \in 1..Len(args) : ~IntOk(args[i]) THEN Raise(ValueError)
  ELSE RetList([i \in 1..Len(args) |-> int(args[i])])

\* print_roots without "if roots:": an empty list prints an empty line
print_roots_NoGuard(r) ==
  IF r.kind = "list" /\ r.lval # <<>>
  THEN [i \in 1..Len(r.lval) |-> str(r.lval[i])]
  ELSE <<<<>>>>

(***************************************************************************)
(* print_roots: the lines it prints.  None and [] are both false.          *)
(***************************************************************************)
print_roots(r) ==
  IF r.kind = "list" /\ r.lval # <<>>
  THEN [i \in 1..Len(r.lval) |-> str(r.lval[i])]
  ELSE <<>>

VARIABLES
  fn,         \* the function called at top level
  pc,         \* the position of the call
  poly,       \* the argument poly (main: the local poly)
  xval,       \* the argument xval
  arguments,  \* main's arguments
  root_list,  \* integer_roots' local
  true_roots, \* integer_roots' local
  idx,        \* position of the for loop in root_list
  tested,     \* the values integer_roots passed to is_root, in order
  roots,      \* main's local
  calls,      \* the functions main called, in order
  stdout,     \* the lines printed
  result      \* the outcome of the top-level call

vars == <<fn, pc, poly, xval, arguments, root_list, true_roots, idx, tested,
          roots, calls, stdout, result>>

Fns == {"evaluate_polynomial", "is_root", "integer_roots", "main"}

Init ==
  /\ fn \in Fns
  /\ pc = "call"
  /\ poly \in (IF fn = "main" THEN {List(<<>>)} ELSE Polys)
  /\ xval \in (IF fn \in {"evaluate_polynomial", "is_root"} THEN Xvals ELSE {0})
  /\ arguments \in (IF fn = "main" THEN ArgLists ELSE {<<>>})
  /\ root_list = <<>>
  /\ true_roots = <<>>
  /\ idx = 1
  /\ tested = <<>>
  /\ roots = Pending
  /\ calls = <<>>
  /\ stdout = <<>>
  /\ result = Pending

(***************************************************************************)
(* A top-level call of evaluate_polynomial or of is_root.                  *)
(***************************************************************************)
CallEvaluatePolynomial ==
  /\ pc = "call" /\ fn = "evaluate_polynomial"
  /\ result' = evaluate_polynomial(poly, xval)
  /\ pc' = "done"
  /\ UNCHANGED <<fn, poly, xval, arguments, root_list, true_roots, idx, tested,
                 roots, calls, stdout>>

CallIsRoot ==
  /\ pc = "call" /\ fn = "is_root"
  /\ result' = is_root(poly, xval)
  /\ pc' = "done"
  /\ UNCHANGED <<fn, poly, xval, arguments, root_list, true_roots, idx, tested,
                 roots, calls, stdout>>

(***************************************************************************)
(* integer_roots, called at top level or by main.  An exception ends the   *)
(* top-level call; a return value goes to main's roots when main called.   *)
(***************************************************************************)
IntegerRootsRaise(e) ==
  /\ result' = Raise(e)
  /\ pc' = "done"
  /\ UNCHANGED roots

IntegerRootsReturn(v) ==
  IF fn = "main"
  THEN roots' = v /\ pc' = "m_print" /\ UNCHANGED result
  ELSE result' = v /\ pc' = "done" /\ UNCHANGED roots

CallIntegerRoots ==
  /\ pc = "call" /\ fn = "integer_roots"
  /\ pc' = "ir_errors"
  /\ UNCHANGED <<fn, poly, xval, arguments, root_list, true_roots, idx, tested,
                 roots, calls, stdout, result>>

\* Errors(poly)
IntegerRootsErrors ==
  /\ pc = "ir_errors"
  /\ IF Errors(poly) # NoError
     THEN IntegerRootsRaise(Errors(poly))
     ELSE pc' = "ir_branch" /\ UNCHANGED <<roots, result>>
  /\ UNCHANGED <<fn, poly, xval, arguments, root_list, true_roots, idx, tested,
                 calls, stdout>>

\* the empty polynomial answered with a bare return
IntegerRootsEmpty_ReturnsNone ==
  /\ pc = "ir_branch"
  /\ poly.items = <<>>
  /\ IntegerRootsReturn(RetNone)
  /\ UNCHANGED <<fn, poly, xval, arguments, root_list, true_roots, idx, tested,
                 calls, stdout>>

\* if poly == []: return []
IntegerRootsEmpty ==
  /\ pc = "ir_branch"
  /\ poly.items = <<>>
  /\ IntegerRootsReturn(RetList(<<>>))
  /\ UNCHANGED <<fn, poly, xval, arguments, root_list, true_roots, idx, tested,
                 calls, stdout>>

\* elif poly[-1] > 0: root_list = range(-poly[-1], poly[-1] + 1); true_roots = []
IntegerRootsPositive ==
  /\ pc = "ir_branch"
  /\ poly.items # <<>>
  /\ Last(poly) > 0
  /\ root_list' = RangeList(0 - Last(poly), Last(poly) + 1)
  /\ true_roots' = <<>>
  /\ idx' = 1
  /\ pc' = "ir_loop_pos"
  /\ UNCHANGED <<fn, poly, xval, arguments, tested, roots, calls, stdout, result>>

\* elif poly[-1] < 0: root_list = range(poly[-1], -poly[-1] + 1); true_roots = []
IntegerRootsNegative ==
  /\ pc = "ir_branch"
  /\ poly.items # <<>>
  /\ ~(Last(poly) > 0)
  /\ Last(poly) < 0
  /\ root_list' = RangeList(Last(poly), (0 - Last(poly)) + 1)
  /\ true_roots' = <<>>
  /\ idx' = 1
  /\ pc' = "ir_loop_neg"
  /\ UNCHANGED <<fn, poly, xval, arguments, tested, roots, calls, stdout, result>>

\* no branch taken: the function ends without a return statement
IntegerRootsFallThrough ==
  /\ pc = "ir_branch"
  /\ poly.items # <<>>
  /\ ~(Last(poly) > 0)
  /\ ~(Last(poly) < 0)
  /\ IntegerRootsReturn(RetNone)
  /\ UNCHANGED <<fn, poly, xval, arguments, root_list, true_roots, idx, tested,
                 calls, stdout>>

\* the loop body keeping the candidates that are not roots
LoopBody_Inverted ==
  /\ idx <= Len(root_list)
  /\ tested' = Append(tested, root_list[idx])
  /\ true_roots' = IF is_root(poly, root_list[idx]) = RetBool(FALSE)
                   THEN Append(true_roots, root_list[idx])
                   ELSE true_roots
  /\ idx' = idx + 1
  /\ UNCHANGED <<fn, pc, poly, xval, arguments, root_list, roots, calls, stdout,
                 result>>

\* one iteration of: for root in root_list: if is_root(poly, root) == True: ...
LoopBody ==
  /\ idx <= Len(root_list)
  /\ tested' = Append(tested, root_list[idx])
  /\ true_roots' = IF is_root(poly, root_list[idx]) = RetBool(TRUE)
                   THEN Append(true_roots, root_list[idx])
                   ELSE true_roots
  /\ idx' = idx + 1
  /\ UNCHANGED <<fn, pc, poly, xval, arguments, root_list, roots, calls, stdout,
                 result>>

\* the loop is exhausted: return true_roots
LoopExit ==
  /\ idx > Len(root_list)
  /\ IntegerRootsReturn(RetList(true_roots))
  /\ UNCHANGED <<fn, poly, xval, arguments, root_list, true_roots, idx, tested,
                 calls, stdout>>

IntegerRootsTestPositive == pc = "ir_loop_pos" /\ LoopBody

IntegerRootsReturnPositive == pc = "ir_loop_pos" /\ LoopExit

IntegerRootsTestNegative == pc = "ir_loop_neg" /\ LoopBody

IntegerRootsReturnNegative == pc = "ir_loop_neg" /\ LoopExit

(***************************************************************************)
(* main                                                                    *)
(***************************************************************************)
\* if not arguments: print(PROGRAM_EXPLANATION); return
MainUsage ==
  /\ pc = "call" /\ fn = "main"
  /\ arguments = <<>>
  /\ stdout' = Append(stdout, PROGRAM_EXPLANATION)
  /\ result' = RetNone
  /\ pc' = "done"
  /\ UNCHANGED <<fn, poly, xval, arguments, root_list, true_roots, idx, tested,
                 roots, calls>>

\* poly = parse_coefficients(arguments)
MainParse ==
  /\ pc = "call" /\ fn = "main"
  /\ arguments # <<>>
  /\ calls' = Append(calls, "parse_coefficients")
  /\ IF parse_coefficients(arguments).kind = "raise"
     THEN result' = parse_coefficients(arguments) /\ pc' = "done" /\ UNCHANGED poly
     ELSE /\ poly' = IntList(parse_coefficients(arguments).lval)
          /\ pc' = "m_search"
          /\ UNCHANGED result
  /\ UNCHANGED <<fn, xval, arguments, root_list, true_roots, idx, tested, roots,
                 stdout>>

\* roots = integer_roots(poly): the call
MainSearch ==
  /\ pc = "m_search"
  /\ calls' = Append(calls, "integer_roots")
  /\ pc' = "ir_errors"
  /\ UNCHANGED <<fn, poly, xval, arguments, root_list, true_roots, idx, tested,
                 roots, stdout, result>>

\* print_roots(roots), and main returns
MainPrint ==
  /\ pc = "m_print"
  /\ calls' = Append(calls, "print_roots")
  /\ stdout' = stdout \o print_roots(roots)
  /\ result' = RetNone
  /\ pc' = "done"
  /\ UNCHANGED <<fn, poly, xval, arguments, root_list, true_roots, idx, tested,
                 roots>>

Next ==
  \/ CallEvaluatePolynomial
  \/ CallIsRoot
  \/ CallIntegerRoots
  \/ IntegerRootsErrors
  \/ IntegerRootsEmpty
  \/ IntegerRootsPositive
  \/ IntegerRootsNegative
  \/ IntegerRootsFallThrough
  \/ IntegerRootsTestPositive
  \/ IntegerRootsReturnPositive
  \/ IntegerRootsTestNegative
  \/ IntegerRootsReturnNegative
  \/ MainUsage
  \/ MainParse
  \/ MainSearch
  \/ MainPrint

Spec == Init /\ [][Next]_vars

(***************************************************************************)
(* Vocabulary of the properties.                                           *)
(***************************************************************************)
\* a valid polynomial: a list of ints, empty or with a non-zero first element
ValidPoly(p) ==
  /\ p.islist
  /\ \A i \in 1..Len(p.items) : p.items[i].isint
  /\ (p.items # <<>> => p.items[1].val # 0)

\* an input the validity check must reject
InvalidInput(p) ==
  \/ ~p.islist
  \/ /\ p.items # <<>>
     /\ (~p.items[1].isint \/ p.items[1].val = 0)

Elems(s) == {s[i] : i \in 1..Len(s)}

Abs(n) == IF n < 0 THEN 0 - n ELSE n

StrictlyAscending(s) == \A i \in 1..(Len(s) - 1) : s[i] < s[i + 1]

\* x to the e, with x^0 = 1
Power(x, e) == IF e = 0 THEN 1 ELSE x ^ e

\* the sum of items[k] * x^(n - k) over k = 1..i, n the number of items
RECURSIVE TermSum(_, _, _)
TermSum(items, x, i) ==
  IF i = 0 THEN 0
  ELSE items[i].val * Power(x, Len(items) - i) + TermSum(items, x, i - 1)

\* a top-level call of integer_roots on a valid polynomial has ended
SearchEnded == fn = "integer_roots" /\ pc = "done" /\ ValidPoly(poly)

MainOrder == <<"parse_coefficients", "integer_roots", "print_roots">>

IsPrefix(s, t) == Len(s) <= Len(t) /\ \A i \in 1..Len(s) : s[i] = t[i]

(***************************************************************************)
(* C1: for a valid non-empty polynomial with constant term c and every x   *)
(* in [-|c|, |c|], x is in integer_roots(p) iff evaluate_polynomial(p, x)  *)
(* is 0.                                                                   *)
(***************************************************************************)
C1_RootsAreTheZerosInRange ==
  (SearchEnded /\ poly.items # <<>>) =>
    \A x \in (0 - Abs(Last(poly)))..Abs(Last(poly)) :
      (result.kind = "list" /\ x \in Elems(result.lval))
        <=> (evaluate_polynomial(poly, x) = RetInt(0))

\* C1 with the constant term other than 0: the part of C1 the code meets
C1_NonZeroConstant ==
  (SearchEnded /\ poly.items # <<>> /\ Last(poly) # 0) =>
    \A x \in (0 - Abs(Last(poly)))..Abs(Last(poly)) :
      (result.kind = "list" /\ x \in Elems(result.lval))
        <=> (evaluate_polynomial(poly, x) = RetInt(0))

(***************************************************************************)
(* C2: for a valid non-empty polynomial, every integer x of any magnitude  *)
(* at which evaluate_polynomial(p, x) is 0 is in integer_roots(p).         *)
(***************************************************************************)
C2_AllIntegerRootsFound ==
  (SearchEnded /\ poly.items # <<>>) =>
    \A x \in Xvals :
      (evaluate_polynomial(poly, x) = RetInt(0))
        => (result.kind = "list" /\ x \in Elems(result.lval))

\* C2 with the constant term other than 0: the part of C2 the code meets
C2_NonZeroConstant ==
  (SearchEnded /\ poly.items # <<>> /\ Last(poly) # 0) =>
    \A x \in Xvals :
      (evaluate_polynomial(poly, x) = RetInt(0))
        => (result.kind = "list" /\ x \in Elems(result.lval))

(***************************************************************************)
(* C3: for a valid non-empty polynomial with constant term 0,              *)
(* integer_roots tests the single candidate 0 and returns [0].             *)
(***************************************************************************)
C3_ZeroConstantReturnsZero ==
  (SearchEnded /\ poly.items # <<>> /\ Last(poly) = 0) =>
    (tested = <<0>> /\ result = RetList(<<0>>))

(***************************************************************************)
(* C4: for every valid polynomial, integer_roots returns a sequence of     *)
(* integers that is strictly ascending (so without duplicates), each       *)
(* candidate having been tested once, in ascending order.                  *)
(***************************************************************************)
C4_ResultStrictlyAscending ==
  SearchEnded =>
    /\ result.kind = "list"
    /\ StrictlyAscending(result.lval)
    /\ StrictlyAscending(tested)

(***************************************************************************)
(* C5: on an input that is not a list, or a non-empty list whose first     *)
(* element is not an int or is 0, evaluate_polynomial, is_root and         *)
(* integer_roots each raise BadPolynomialError, before any candidate is    *)
(* built or tested and with no value returned.                             *)
(***************************************************************************)
C5_InvalidInputRaises ==
  (fn \in {"evaluate_polynomial", "is_root", "integer_roots"} /\ InvalidInput(poly)) =>
    /\ pc \in {"call", "ir_errors", "done"}
    /\ root_list = <<>> /\ true_roots = <<>> /\ tested = <<>>
    /\ pc = "done" => result = Raise(BadPolynomialError)

C5_Witness ==
  /\ fn = "integer_roots" /\ pc = "done"
  /\ poly = IntList(<<0, 1>>)
  /\ result = Raise(BadPolynomialError)

(***************************************************************************)
(* C6: for a valid polynomial [a_0, ..., a_n] and an integer x,            *)
(* evaluate_polynomial returns the sum of a_i * x^(n-i), i = 0..n; for the *)
(* empty polynomial it returns 0.                                          *)
(***************************************************************************)
C6_EvaluateIsTheSum ==
  (fn = "evaluate_polynomial" /\ pc = "done" /\ ValidPoly(poly)) =>
    /\ result = RetInt(TermSum(poly.items, xval, Len(poly.items)))
    /\ poly.items = <<>> => result = RetInt(0)

C6_Witness ==
  /\ fn = "evaluate_polynomial" /\ pc = "done"
  /\ poly = IntList(<<1, 0 - 2, 1>>) /\ xval = 0 - 3
  /\ result = RetInt(16)

(***************************************************************************)
(* C7: for a valid polynomial (the empty one included) and an integer x,   *)
(* is_root returns True when evaluate_polynomial returns 0 and False       *)
(* otherwise.                                                              *)
(***************************************************************************)
C7_IsRootAgreesWithEvaluate ==
  (fn = "is_root" /\ pc = "done" /\ ValidPoly(poly)) =>
    result = RetBool(evaluate_polynomial(poly, xval) = RetInt(0))

C7_Witness ==
  /\ fn = "is_root" /\ pc = "done"
  /\ poly = IntList(<<1, 1, 0 - 2>>) /\ xval = 0 - 2
  /\ result = RetBool(TRUE)

(***************************************************************************)
(* C8: integer_roots([]) returns [] and tests no candidate, although       *)
(* is_root([], x) is True for every x.                                     *)
(***************************************************************************)
C8_EmptyPolynomialNoRoots ==
  (fn = "integer_roots" /\ pc = "done" /\ poly = List(<<>>)) =>
    /\ result = RetList(<<>>)
    /\ root_list = <<>> /\ tested = <<>>
    /\ \A x \in Xvals : is_root(poly, x) = RetBool(TRUE)

C8_Witness ==
  /\ fn = "integer_roots" /\ pc = "done" /\ poly = List(<<>>)
  /\ result = RetList(<<>>)

C10_MainSequence ==
  fn = "main" =>
    /\ IsPrefix(calls, MainOrder)
    /\ arguments = <<>> => calls = <<>>
    /\ (arguments = <<>> /\ pc = "done") => stdout = <<PROGRAM_EXPLANATION>>
    /\ (arguments # <<>> /\ pc = "done" /\ result.kind # "raise") => calls = MainOrder
    /\ (arguments # <<>> /\ pc # "done") => stdout = <<>>
    /\ tested # <<>> => (Len(calls) >= 2 /\ Errors(poly) = NoError)
    /\ (pc = "done" /\ result.kind = "raise") =>
         /\ stdout = <<>>
         /\ "print_roots" \notin Elems(calls)
         /\ result.exc = BadPolynomialError => calls = <<"parse_coefficients", "integer_roots">>
    /\ (pc = "done" /\ arguments # <<>> /\ result.kind # "raise" /\ roots.lval = <<>>) =>
         stdout = <<>>
    /\ (pc = "done" /\ arguments # <<>> /\ result.kind # "raise" /\ roots.lval # <<>>) =>
         Len(stdout) = Len(roots.lval)

C10_Witness ==
  /\ fn = "main" /\ pc = "done"
  /\ arguments = <<str(1), str(0 - 2), str(1)>>
  /\ calls = MainOrder
  /\ stdout = <<str(1)>>

====
